---- MODULE Spec2Model ----
(***************************************************************************)
(* Shadow Orography: the shadow-flicker calendar pipeline                  *)
(* (core/solar.py, core/geometry.py, core/calendar.py) and the startup     *)
(* wrapper (main.py), as state machines.                                   *)
(*                                                                         *)
(* Numbers.  The program computes in IEEE doubles; the model computes in   *)
(* fixed point over the integers:                                          *)
(*   - the turbine's fields are whole metres; the lengths computed from    *)
(*     them and all polygon coordinates are whole decimetres (LenScale);   *)
(*   - angles are whole multiples of 0.0001 degree (AngleUnit per degree); *)
(*   - sines, cosines and tangents are scaled by TrigScale and rounded.    *)
(* Instants are minutes since 1970-01-01T00:00 UTC.                        *)
(***************************************************************************)
EXTENDS Integers, Sequences, FiniteSets, TLC

VARIABLES
    \* ---- geometry calls (core/geometry.py)
    g_op,        \* which function was called last: "none", "ellipse", "intersects"
    g_in,        \* its arguments
    g_out,       \* its result
    \* ---- make_yearly_time_index (core/solar.py)
    ix_pc,       \* "call", "gen", "done", "raised"
    ix_in,       \* [year, timezone, timestep_minutes]
    ix_tz,       \* name of the zone the index is attached to
    ix_warned,   \* a RuntimeWarning was issued
    ix_exc,      \* the exception that left the function, or "none"
    ix_first,    \* first timestamp of the index
    ix_prev,     \* the timestamp before the last one generated (or -1)
    ix_last,     \* the last timestamp generated
    ix_n,        \* number of timestamps generated so far
    \* ---- compute_shadow_calendar (core/calendar.py)
    c_pc,        \* "call", "loop", "done", "raised"
    c_in,        \* [aoi, turbines, parameters, sun]
    c_daylight,  \* solar_daylight: the filtered samples, in index order
    c_i,         \* position of the outer loop in c_daylight
    c_j,         \* position of the inner loop in the turbine list
    c_rows,      \* rows appended so far
    \* ---- main.run (main.py)
    m_pc,        \* "start", "load", "gui", "done"
    m_env,       \* [frozen, load, gui]: sys.frozen and what the two calls will do
    m_log,       \* the startup log file: a sequence of entries
    m_raised,    \* [exc, cause]: what main.run() raised to its caller, or NoExc
    m_gui_calls, \* how often the GUI run callable was invoked
    \* ---- MainWindow (gui/app.py)
    w_aoi_polygon,     \* <<>> for None, else <<path>>: the polygon of that file
    w_turbines,        \* the turbine list
    w_parameters,      \* ProjectParameters
    w_inputs,          \* [year, min_elev]: the values of the two spin boxes
    w_results_df,      \* <<>>, or <<[turbines, parameters]>> the results were computed for
    w_daylight_df,     \* the daylight rows of the last computation
    w_current_day_df,  \* the rows the timeline steps through
    w_day_selector,    \* [items, current]: the days offered and the one selected
    w_timeline,        \* [maximum, value] of the slider (its minimum is 0)
    w_time_label       \* <<>> for "No frame", else <<timestamp shown>>

geomVars == <<g_op, g_in, g_out>>
ixVars   == <<ix_pc, ix_in, ix_tz, ix_warned, ix_exc, ix_first, ix_prev, ix_last, ix_n>>
calVars  == <<c_pc, c_in, c_daylight, c_i, c_j, c_rows>>
mainVars == <<m_pc, m_env, m_log, m_raised, m_gui_calls>>
guiVars  == <<w_aoi_polygon, w_turbines, w_parameters, w_inputs, w_results_df,
              w_daylight_df, w_current_day_df, w_day_selector, w_timeline, w_time_label>>
vars     == <<geomVars, ixVars, calVars, mainVars, guiVars>>

----------------------------------------------------------------------------
(* Fixed-point arithmetic *)

AngleUnit == 100 * 100          \* angle units per degree
TrigScale == 1000 * 1000        \* scale of the trigonometric values
LenScale  == 2 * 5              \* length units (decimetres) per metre
Deg(d) == d * AngleUnit
MaxFixed == 2147483647 + 0      \* the largest fixed-point value

Abs(x) == IF x < 0 THEN -x ELSE x
Sgn(x) == IF x < 0 THEN -1 ELSE IF x = 0 THEN 0 ELSE 1
MaxOf(x, y) == IF x >= y THEN x ELSE y
MinOf(x, y) == IF x <= y THEN x ELSE y

\* x * c / TrigScale, the product taken in parts so that it stays in range
MulScaled(x, c) ==
    LET ax == Abs(x)
        ac == Abs(c)
        xh == ax \div 1000
        xl == ax % 1000
        ch == ac \div 1000
        cl == ac % 1000
    IN  Sgn(x) * Sgn(c) * (xh * ch + (xh * cl + xl * ch) \div 1000 + (xl * cl) \div TrigScale)

\* math.sin on the first quadrant, at the angles the model uses
SinQ ==
    (0 :> 0) @@ (5 :> 9) @@ (10 :> 17) @@ (50000 :> 87156) @@ (56250 :> 98017) @@
    (112500 :> 195090) @@ (168750 :> 290285) @@ (225000 :> 382683) @@ (250000 :> 422618) @@
    (281250 :> 471397) @@ (337500 :> 555570) @@ (393750 :> 634393) @@ (450000 :> 707107) @@
    (506250 :> 773010) @@ (562500 :> 831470) @@ (618750 :> 881921) @@ (650000 :> 906308) @@
    (675000 :> 923880) @@ (731250 :> 956940) @@ (787500 :> 980785) @@ (843750 :> 995185) @@
    (900000 :> 1000000)

\* math.tan at the elevations the model uses; tan(radians(90)) is 1.6e16 in
\* doubles, beyond the fixed-point range, and saturates
TanQ ==
    (0 :> 0) @@ (5 :> 9) @@ (10 :> 17) @@ (50000 :> 87489) @@ (250000 :> 466308) @@
    (450000 :> 1000000) @@ (650000 :> 2144507) @@ (900000 :> MaxFixed)

\* math.sin(math.radians(ang)), any quadrant
Sin(ang) ==
    LET m == ang % Deg(360)
    IN  IF m <= Deg(90) THEN SinQ[m]
        ELSE IF m <= Deg(180) THEN SinQ[Deg(180) - m]
        ELSE IF m <= Deg(270) THEN -SinQ[m - Deg(180)]
        ELSE -SinQ[Deg(360) - m]

\* math.cos(math.radians(ang))
Cos(ang) == Sin(ang + Deg(90))

\* math.tan(math.radians(ang)) for an elevation in [-90, 90] degrees
Tan(ang) == IF ang < 0 THEN -TanQ[-ang] ELSE TanQ[ang]

----------------------------------------------------------------------------
(* core/shadow_model.py *)

\* Turbine.rotor_radius_m (the model's diameters are even)
rotor_radius_m(turbine) == turbine.rotor_diameter_m \div 2

----------------------------------------------------------------------------
(* core/geometry.py: shadow_ellipse_polygon *)

\* the floor of the sun elevation, 0.001 degree, in angle units
ElevationFloor == 10
\* the default of num_points
DefaultNumPoints == 64

\* max(sun_elevation_deg, 0.001): the elevation the divisions use
NoClampElevation(sun_elevation) == sun_elevation
ClampElevation(sun_elevation) == MaxOf(sun_elevation, ElevationFloor)

\* a = rotor_radius_m / math.sin(elevation_rad)
SemiMajorByTan(rotor_radius, elevation) ==
    (rotor_radius * LenScale * TrigScale) \div Tan(elevation)
SemiMajor(rotor_radius, elevation) ==
    (rotor_radius * LenScale * TrigScale) \div Sin(elevation)

\* the scalars of the construction: the elevation used, the two divisors,
\* d, a, b and the centre of the shadow
EllipseParts(turbine_x, turbine_y, hub_height_m, rotor_radius, sun_azimuth, sun_elevation) ==
    LET elevation == ClampElevation(sun_elevation)
        tanE == Tan(elevation)
        sinE == Sin(elevation)
        d    == IF tanE = 0 THEN 0 ELSE (hub_height_m * LenScale * TrigScale) \div tanE
        a    == IF sinE = 0 THEN 0 ELSE SemiMajor(rotor_radius, elevation)
        dx   == -MulScaled(d, Sin(sun_azimuth))
        dy   == -MulScaled(d, Cos(sun_azimuth))
    IN  [ elevation |-> elevation, tanE |-> tanE, sinE |-> sinE,
          raised |-> tanE = 0 \/ sinE = 0,      \* ZeroDivisionError
          d |-> d, a |-> a, b |-> rotor_radius * LenScale,
          center_x |-> turbine_x * LenScale + dx, center_y |-> turbine_y * LenScale + dy ]

\* resolution = max(16, num_points // 4): segments per quarter circle
QuadSegs(num_points) == MaxOf(16, num_points \div 4)

\* Point(c).buffer(1.0, resolution): vertex k of the unit circle, as an offset
\* from the centre; the ring starts at angle 0 and runs clockwise
UnitCircleVertex(k, quad) ==
    LET ang == -((k - 1) * (Deg(90) \div quad))
    IN  <<Cos(ang), Sin(ang)>>

\* affinity.rotate by rotation_deg = 90 - sun_azimuth_deg about the centre
RotationUnshifted(sun_azimuth) == -sun_azimuth
RotationDeg(sun_azimuth) == Deg(90) - sun_azimuth

\* one vertex: the unit circle scaled by (a, b) about the centre, then rotated
EllipseVertex(k, quad, parts, sun_azimuth) ==
    LET u  == UnitCircleVertex(k, quad)
        sx == MulScaled(parts.a, u[1])
        sy == MulScaled(parts.b, u[2])
        c  == Cos(RotationDeg(sun_azimuth))
        s  == Sin(RotationDeg(sun_azimuth))
    IN  << parts.center_x + MulScaled(sx, c) - MulScaled(sy, s),
           parts.center_y + MulScaled(sx, s) + MulScaled(sy, c) >>

\* a ring of vertices as a sequence value (its vertices computed once)
Ring(vertices) == vertices \o <<>>

\* shadow_ellipse_polygon: [raised, polygon]; the ring is kept open
shadow_ellipse_polygon(turbine_x, turbine_y, hub_height_m, rotor_radius, sun_azimuth, sun_elevation, num_points) ==
    LET parts == EllipseParts(turbine_x, turbine_y, hub_height_m, rotor_radius,
                              sun_azimuth, sun_elevation)
        quad  == QuadSegs(num_points)
    IN  IF parts.raised
        THEN [raised |-> TRUE, polygon |-> <<>>]
        ELSE [raised |-> FALSE,
              polygon |-> Ring([k \in 1..(4 * quad) |->
                                    EllipseVertex(k, quad, parts, sun_azimuth)])]

----------------------------------------------------------------------------
(* shapely: bounds, area, intersects, for convex rings *)

\* the smallest and the largest element of a set of numbers
SetMin(S) == CHOOSE x \in S : \A y \in S : x <= y
SetMax(S) == -SetMin({-x : x \in S})

\* Polygon.bounds: (minx, miny, maxx, maxy); all NaN for the empty polygon
Bounds(poly) ==
    IF Len(poly) = 0
    THEN [nan |-> TRUE, minx |-> 0, miny |-> 0, maxx |-> 0, maxy |-> 0]
    ELSE LET xs == {poly[k][1] : k \in 1..Len(poly)}
             ys == {poly[k][2] : k \in 1..Len(poly)}
         IN  [nan |-> FALSE, minx |-> SetMin(xs), miny |-> SetMin(ys),
              maxx |-> SetMax(xs), maxy |-> SetMax(ys)]

Width(poly)  == Bounds(poly).maxx - Bounds(poly).minx
Height(poly) == Bounds(poly).maxy - Bounds(poly).miny

\* x * y / LenScale^2 (square decimetres to square metres), the larger factor
\* taken in parts so that the product stays in range
MulArea(x, y) ==
    LET big   == MaxOf(Abs(x), Abs(y))
        small == MinOf(Abs(x), Abs(y))
        unit  == LenScale * LenScale
    IN  Sgn(x) * Sgn(y) * ((big \div unit) * small + ((big % unit) * small) \div unit)

\* twice the signed area of the triangle (poly[1], poly[k], poly[k+1]), in
\* square metres
Cross(poly, k) ==
    LET ax == poly[k][1] - poly[1][1]
        ay == poly[k][2] - poly[1][2]
        bx == poly[k + 1][1] - poly[1][1]
        by == poly[k + 1][2] - poly[1][2]
    IN  MulArea(ax, by) - MulArea(bx, ay)

RECURSIVE CrossSum(_, _)
CrossSum(poly, k) == IF k >= Len(poly) THEN 0 ELSE Cross(poly, k) + CrossSum(poly, k + 1)

\* twice Polygon.area (the shoelace sum, unsigned), in square metres
Area2(poly) == IF Len(poly) < 3 THEN 0 ELSE Abs(CrossSum(poly, 2))

\* the left normal of edge k of a ring
EdgeNormal(poly, k) ==
    LET n == IF k = Len(poly) THEN 1 ELSE k + 1
    IN  <<poly[k][2] - poly[n][2], poly[n][1] - poly[k][1]>>

Projections(poly, axis) == {poly[k][1] * axis[1] + poly[k][2] * axis[2] : k \in 1..Len(poly)}

\* the two rings lie strictly on opposite sides of some line normal to axis
Separates(axis, p, q) ==
    LET pp == Projections(p, axis)
        qq == Projections(q, axis)
    IN  \/ \A x \in pp, y \in qq : x < y
        \/ \A x \in pp, y \in qq : y < x

\* Polygon.intersects for convex polygons: the closed regions share a point
\* (no edge normal of either separates them); FALSE when either is empty
polygon_intersects(p, q) ==
    /\ Len(p) > 0
    /\ Len(q) > 0
    /\ \A k \in 1..Len(p) : ~Separates(EdgeNormal(p, k), p, q)
    /\ \A k \in 1..Len(q) : ~Separates(EdgeNormal(q, k), p, q)

\* a comparison with NaN is False
BoundsDisjointClosed(b1, b2) ==
    /\ ~b1.nan
    /\ ~b2.nan
    /\ (b1.maxx <= b2.minx \/ b2.maxx <= b1.minx \/ b1.maxy <= b2.miny \/ b2.maxy <= b1.miny)
BoundsDisjoint(b1, b2) ==
    /\ ~b1.nan
    /\ ~b2.nan
    /\ (b1.maxx < b2.minx \/ b2.maxx < b1.minx \/ b1.maxy < b2.miny \/ b2.maxy < b1.miny)

\* core/geometry.py: intersects_fast
intersects_fast(aoi_polygon, candidate) ==
    IF BoundsDisjoint(Bounds(aoi_polygon), Bounds(candidate))
    THEN FALSE
    ELSE polygon_intersects(aoi_polygon, candidate)

----------------------------------------------------------------------------
(* Values of the variables a specification does not use *)

NoExc == [type |-> "none", name |-> <<>>, msg |-> <<>>]

GeomIdle ==
    /\ g_op = "none"
    /\ g_in = <<>>
    /\ g_out = [done |-> FALSE]

IxIdle ==
    /\ ix_pc = "idle"
    /\ ix_in = <<>>
    /\ ix_tz = "none"
    /\ ix_warned = FALSE
    /\ ix_exc = "none"
    /\ ix_first = 0
    /\ ix_prev = 0
    /\ ix_last = 0
    /\ ix_n = 0

CalIdle ==
    /\ c_pc = "idle"
    /\ c_in = <<>>
    /\ c_daylight = <<>>
    /\ c_i = 0
    /\ c_j = 0
    /\ c_rows = <<>>

MainIdle ==
    /\ m_pc = "idle"
    /\ m_env = <<>>
    /\ m_log = <<>>
    /\ m_raised = [exc |-> NoExc, cause |-> NoExc]
    /\ m_gui_calls = 0

\* MainWindow.__init__: no AOI, no turbines, the default parameters, empty data
\* frames, an empty day selector, a slider from 0 to 99 at 0, the label "No frame"
GuiIdle ==
    /\ w_aoi_polygon = <<>>
    /\ w_turbines = <<>>
    /\ w_parameters = [latitude |-> 45, longitude |-> 10, year |-> 2024,
                       min_solar_elevation_deg |-> 5]
    /\ w_inputs = [year |-> 2024, min_elev |-> 5]
    /\ w_results_df = <<>>
    /\ w_daylight_df = <<>>
    /\ w_current_day_df = <<>>
    /\ w_day_selector = [items |-> <<>>, current |-> <<>>]
    /\ w_timeline = [maximum |-> 99, value |-> 0]
    /\ w_time_label = <<>>

----------------------------------------------------------------------------
(* core/solar.py: make_yearly_time_index *)

\* A timezone identifier is the sequence of its "/"-separated segments.
UTC     == <<"UTC">>
Rome    == <<"Europe", "Rome">>
\* the zones of the tz database the model knows
ZoneDatabase == {UTC, Rome}

\* ZoneInfo(key): a key that is absolute or not a normalised relative path (an
\* empty, "." or ".." segment) raises ValueError; a well-formed key without a
\* zone file raises ZoneInfoNotFoundError
ZoneInfo(key) ==
    IF \E i \in 1..Len(key) : key[i] \in {"", ".", ".."} THEN "ValueError"
    ELSE IF key \in ZoneDatabase THEN "ok"
    ELSE "ZoneInfoNotFoundError"

\* try ZoneInfo(timezone) / except ZoneInfoNotFoundError: warn, use UTC
ResolveZone(timezone) ==
    CASE ZoneInfo(timezone) = "ok" ->
            [raised |-> "none", warned |-> FALSE, tz |-> timezone]
      [] ZoneInfo(timezone) = "ZoneInfoNotFoundError" ->
            [raised |-> "none", warned |-> TRUE, tz |-> UTC]
      [] OTHER ->
            [raised |-> ZoneInfo(timezone), warned |-> FALSE, tz |-> timezone]

IsLeap(year) == year % 4 = 0 /\ (year % 100 # 0 \/ year % 400 = 0)
DaysInYear(year) == IF IsLeap(year) THEN 366 ELSE 365
LeapDaysBefore(year) == (year - 1) \div 4 - (year - 1) \div 100 + (year - 1) \div 400
\* days from 1970-01-01 to year-01-01
DaysBeforeYear(year) == 365 * (year - 1970) + LeapDaysBefore(year) - LeapDaysBefore(1970)
MinutesPerDay == 24 * 60

\* the zone's UTC offset, in minutes, at 00:00 local time of year-01-01
\* (Italy kept summer time through the winters of 1940/41 and 1941/42)
UtcOffsetJan1(tz, year) ==
    IF tz = Rome THEN (IF year \in {1941, 1942} THEN 120 ELSE 60) ELSE 0

\* pd.Timestamp(year=year, month=1, day=1, tz=tzinfo), as an instant
Jan1(year, tz) == DaysBeforeYear(year) * MinutesPerDay - UtcOffsetJan1(tz, year)

\* inclusive="left": a timestamp is kept when it lies before end
KeepBoth(t, end) == t <= end
KeepLeft(t, end) == t < end

\* pd.date_range(start, end, inclusive="left", freq): start, start + freq, ...
RECURSIVE DateRange(_, _, _)
DateRange(start, end, step) ==
    IF KeepLeft(start, end) THEN <<start>> \o DateRange(start + step, end, step) ELSE <<>>

\* make_yearly_time_index: [raised, warned, tz, times]
make_yearly_time_index(year, timezone, timestep_minutes) ==
    LET z == ResolveZone(timezone)
    IN  [raised |-> z.raised, warned |-> z.warned, tz |-> z.tz,
         times  |-> IF z.raised # "none" THEN <<>>
                    ELSE DateRange(Jan1(year, z.tz), Jan1(year + 1, z.tz), timestep_minutes)]

(* make_yearly_time_index as a process: the index is generated one timestamp  *)
(* at a time, so that a whole year at a 60-minute step can be walked.         *)

IxYears == {1940, 2023, 2024}
IxZones == {Rome, UTC, <<"Invalid", "Timezone">>, <<"Mars">>, <<"..", "Invalid">>,
            <<"", "etc", "localtime">>}
IxSteps == {60, MinutesPerDay, 1000}

IxInit ==
    /\ ix_pc = "call"
    /\ \E y \in IxYears, z \in IxZones, st \in IxSteps :
            ix_in = [year |-> y, timezone |-> z, timestep_minutes |-> st]
    /\ ix_tz = <<>>
    /\ ix_warned = FALSE
    /\ ix_exc = "none"
    /\ ix_first = 0
    /\ ix_prev = 0
    /\ ix_last = 0
    /\ ix_n = 0
    /\ GeomIdle
    /\ CalIdle
    /\ MainIdle
    /\ GuiIdle

IxEnd == Jan1(ix_in.year + 1, ix_tz)

\* lines 18-33: the zone is resolved, start and end are built, the range starts
IxCall ==
    /\ ix_pc = "call"
    /\ LET z == ResolveZone(ix_in.timezone)
       IN  /\ ix_tz' = z.tz
           /\ ix_warned' = z.warned
           /\ ix_exc' = z.raised
           /\ IF z.raised # "none"
              THEN ix_pc' = "raised" /\ UNCHANGED <<ix_first, ix_prev, ix_last, ix_n>>
              ELSE /\ ix_pc' = "gen"
                   /\ ix_first' = Jan1(ix_in.year, z.tz)
                   /\ ix_last' = Jan1(ix_in.year, z.tz)
                   /\ ix_prev' = Jan1(ix_in.year, z.tz)
                   /\ ix_n' = 1
    /\ UNCHANGED <<ix_in, geomVars, calVars, mainVars, guiVars>>

\* date_range: the next timestamp is kept
IxGen ==
    /\ ix_pc = "gen"
    /\ KeepLeft(ix_last + ix_in.timestep_minutes, IxEnd)
    /\ ix_prev' = ix_last
    /\ ix_last' = ix_last + ix_in.timestep_minutes
    /\ ix_n' = ix_n + 1
    /\ UNCHANGED <<ix_pc, ix_in, ix_tz, ix_warned, ix_exc, ix_first, geomVars, calVars, mainVars, guiVars>>

\* date_range: the next timestamp is not kept; the index is returned
IxReturn ==
    /\ ix_pc = "gen"
    /\ ~KeepLeft(ix_last + ix_in.timestep_minutes, IxEnd)
    /\ ix_pc' = "done"
    /\ UNCHANGED <<ix_in, ix_tz, ix_warned, ix_exc, ix_first, ix_prev, ix_last, ix_n,
                   geomVars, calVars, mainVars, guiVars>>

IxNext == IxCall \/ IxGen \/ IxReturn

SpecIdx == IxInit /\ [][IxNext]_vars

----------------------------------------------------------------------------
(* Claims about make_yearly_time_index (checked under SpecIdx) *)

IxFinished == ix_pc \in {"done", "raised"}

\* the number of steps of length step that start in [0, span)
StepsIn(span, step) == (span + step - 1) \div step

\* C4: for every timezone identifier that is not a recognised zone, building the
\* index does not fail: it falls back to UTC, warns, and yields the right number
\* of timestamps for the year and the step.
C4_UnknownZoneFallsBack ==
    (IxFinished /\ ix_in.timezone \notin ZoneDatabase) =>
        /\ ix_pc = "done"
        /\ ix_exc = "none"
        /\ ix_tz = UTC
        /\ ix_warned
        /\ ix_n = StepsIn(DaysInYear(ix_in.year) * MinutesPerDay, ix_in.timestep_minutes)

\* the local year: from Jan 1 00:00 local of year to Jan 1 00:00 local of the next
LocalYearStart == DaysBeforeYear(ix_in.year) * MinutesPerDay
LocalYearEnd   == DaysBeforeYear(ix_in.year + 1) * MinutesPerDay

\* the index starts at Jan 1 00:00 local, consecutive timestamps are
\* timestep_minutes apart, all lie before the next Jan 1 00:00 local, and at the
\* end no further step fits
IndexSpansLocalYear ==
    /\ ix_first + UtcOffsetJan1(ix_tz, ix_in.year) = LocalYearStart
    /\ ix_n >= 2 => ix_last - ix_prev = ix_in.timestep_minutes
    /\ ix_last = ix_first + (ix_n - 1) * ix_in.timestep_minutes
    /\ ix_last + UtcOffsetJan1(ix_tz, ix_in.year + 1) < LocalYearEnd
    /\ ix_pc = "done" =>
            ix_last + ix_in.timestep_minutes + UtcOffsetJan1(ix_tz, ix_in.year + 1)
                >= LocalYearEnd

\* C5 as stated: the index spans the local year at the given step, and with a
\* 60-minute step the count is exactly 365*24 or 366*24.
C5_HourlyCountIsDaysTimes24 ==
    ix_pc \in {"gen", "done"} =>
        /\ IndexSpansLocalYear
        /\ (ix_pc = "done" /\ ix_in.timestep_minutes = 60) =>
                ix_n = DaysInYear(ix_in.year) * 24

\* C5 amended: the index spans the local year at the given step; the count is
\* the number of steps that start within the local year, which with a 60-minute
\* step is 365*24 or 366*24 when the zone's UTC offset is the same at both
\* midnights.
C5_IndexCoversLocalYear ==
    ix_pc \in {"gen", "done"} =>
        LET year   == ix_in.year
            change == UtcOffsetJan1(ix_tz, year + 1) - UtcOffsetJan1(ix_tz, year)
            span   == DaysInYear(year) * MinutesPerDay - change
        IN  /\ IndexSpansLocalYear
            /\ ix_pc = "done" =>
                    /\ ix_n = StepsIn(span, ix_in.timestep_minutes)
                    /\ (ix_in.timestep_minutes = 60 /\ change = 0)
                            => ix_n = DaysInYear(year) * 24

\* C5 witness: a leap year walked to its end at a 60-minute step: 8784 timestamps
C5_Witness ==
    /\ ix_pc = "done"
    /\ ix_in.timestep_minutes = 60
    /\ IsLeap(ix_in.year)
    /\ ix_n = 366 * 24


----------------------------------------------------------------------------
(* The geometry functions, called on inputs drawn from bounded sets *)

Turbine1 == [turbine_id |-> "T-1", x |-> 0, y |-> 0,
             hub_height_m |-> 100, rotor_diameter_m |-> 120]
Turbine2 == [turbine_id |-> "T-2", x |-> 300, y |-> 100,
             hub_height_m |-> 80, rotor_diameter_m |-> 100]
GeomTurbines == {Turbine1, Turbine2}

AxisAzimuths == {Deg(0), Deg(90), Deg(180), Deg(270)}
AllAzimuths  == AxisAzimuths \cup {Deg(45), Deg(135)}
LowElevations  == {-Deg(5), 0, 5, ElevationFloor}
HighElevations == {Deg(5), Deg(25), Deg(45), Deg(65), Deg(90)}
\* <<elevation, azimuth>>; a sun at or below the floor casts a shadow millions of
\* metres long, and the model takes it along an axis only
GeomSun == (LowElevations \X AxisAzimuths) \cup (HighElevations \X AllAzimuths)

Rect(x0, y0, x1, y1) == << <<x0, y0>>, <<x1, y0>>, <<x1, y1>>, <<x0, y1>> >>
EmptyPolygon == <<>>
TestPolygons ==
    { Rect(0, 0, 4, 4),                        \* the reference square
      Rect(4, 0, 8, 4),                        \* shares an edge with it
      Rect(4, 4, 6, 6),                        \* shares a corner with it
      Rect(2, 2, 6, 6),                        \* overlaps it
      Rect(1, 1, 3, 3),                        \* lies inside it
      Rect(10, 10, 12, 12),                    \* far away
      << <<3, 6>>, <<6, 3>>, <<6, 6>> >>,      \* boxes overlap, regions do not
      << <<2, 6>>, <<6, 2>>, <<6, 6>> >>,      \* touches the corner (4, 4)
      EmptyPolygon }

\* no call yet, or its result
Pending == [done |-> FALSE]

\* the arguments of one call: of shadow_ellipse_polygon or of intersects_fast
GeomInit ==
    /\ \/ /\ g_op = "ellipse"
          /\ \E t \in GeomTurbines, sun \in GeomSun :
                g_in = [turbine |-> t, sun_elevation |-> sun[1], sun_azimuth |-> sun[2]]
       \/ /\ g_op = "intersects"
          /\ \E a \in TestPolygons, c \in TestPolygons :
                g_in = [aoi_polygon |-> a, candidate |-> c]
    /\ g_out = Pending
    /\ IxIdle
    /\ CalIdle
    /\ MainIdle
    /\ GuiIdle

\* shadow_ellipse_polygon(turbine, sun), with the default num_points
EllipseOf(t, sun_azimuth, sun_elevation) ==
    shadow_ellipse_polygon(t.x, t.y, t.hub_height_m, rotor_radius_m(t),
                           sun_azimuth, sun_elevation, DefaultNumPoints)

\* the call of shadow_ellipse_polygon
EllipseCall ==
    /\ g_op = "ellipse"
    /\ ~g_out.done
    /\ LET t == g_in.turbine
       IN  g_out' = [done   |-> TRUE,
                     parts  |-> EllipseParts(t.x, t.y, t.hub_height_m, rotor_radius_m(t),
                                             g_in.sun_azimuth, g_in.sun_elevation),
                     result |-> EllipseOf(t, g_in.sun_azimuth, g_in.sun_elevation)]
    /\ UNCHANGED <<g_op, g_in, ixVars, calVars, mainVars, guiVars>>

\* the call of intersects_fast
IntersectsCall ==
    /\ g_op = "intersects"
    /\ ~g_out.done
    /\ g_out' = [done |-> TRUE, result |-> intersects_fast(g_in.aoi_polygon, g_in.candidate)]
    /\ UNCHANGED <<g_op, g_in, ixVars, calVars, mainVars, guiVars>>

GeomNext == EllipseCall \/ IntersectsCall

SpecGeom == GeomInit /\ [][GeomNext]_vars

----------------------------------------------------------------------------
(* core/solar.py: compute_solar_position, filter_daylight *)

\* pvlib's solar position is an input of the model: sun[k] is the
\* <<apparent elevation, azimuth>> it computes for the k-th timestamp
compute_solar_position(times, sun) ==
    [k \in 1..Len(times) |->
        [timestamp |-> times[k], apparent_elevation |-> sun[k][1], azimuth |-> sun[k][2]]]

\* apparent_elevation > min_solar_elevation_deg
AtOrAboveMinimum(sample, min_solar_elevation_deg) ==
    sample.apparent_elevation >= min_solar_elevation_deg
AboveMinimum(sample, min_solar_elevation_deg) ==
    sample.apparent_elevation > min_solar_elevation_deg

\* filter_daylight: the rows above the minimum, in their order
filter_daylight(solar_position, min_solar_elevation_deg) ==
    LET Keep(sample) == AboveMinimum(sample, min_solar_elevation_deg)
    IN  SelectSeq(solar_position, Keep)

----------------------------------------------------------------------------
(* core/calendar.py: compute_shadow_calendar *)

\* Europe/Rome in 2023: summer time from 2023-03-26T01:00Z to 2023-10-29T01:00Z
RomeSummer2023 == 27996540 .. (28309020 - 1)
\* Europe/Rome in 2024: summer time from 2024-03-31T01:00Z to 2024-10-27T01:00Z
RomeSummer2024 == 28530780 .. (28833180 - 1)
\* the zone's UTC offset, in minutes, at an instant of 2023 or 2024
UtcOffsetAt(tz, instant) ==
    IF tz = Rome
    THEN (IF instant \in RomeSummer2023 \/ instant \in RomeSummer2024 THEN 120 ELSE 60)
    ELSE 0

FlickerRowUtcParts(turbine, sample, tz) ==
    [ turbine_id        |-> turbine.turbine_id,
      timestamp_local   |-> [local  |-> sample.timestamp + UtcOffsetAt(tz, sample.timestamp),
                             offset |-> UtcOffsetAt(tz, sample.timestamp)],
      date              |-> sample.timestamp \div MinutesPerDay,
      time              |-> sample.timestamp % MinutesPerDay,
      sun_azimuth_deg   |-> sample.azimuth,
      sun_elevation_deg |-> sample.apparent_elevation ]

\* the row appended for a sample and a turbine (lines 48-58): isoformat() is the
\* local wall time with the offset, the date and the time are its two parts
FlickerRow(turbine, sample, tz) ==
    LET off   == UtcOffsetAt(tz, sample.timestamp)
        local == sample.timestamp + off
    IN  [ turbine_id        |-> turbine.turbine_id,
          timestamp_local   |-> [local |-> local, offset |-> off],
          date              |-> local \div MinutesPerDay,
          time              |-> local % MinutesPerDay,
          sun_azimuth_deg   |-> sample.azimuth,
          sun_elevation_deg |-> sample.apparent_elevation ]

\* the candidate polygon of a turbine for a sample (lines 39-46)
Candidate(turbine, sample) ==
    EllipseOf(turbine, sample.azimuth, sample.apparent_elevation).polygon

\* the nested loops: the pair after (i, j), samples outside, turbines inside
TurbineMajorNext(i, j, nSamples, nTurbines) ==
    IF i < nSamples THEN <<i + 1, j>> ELSE <<1, j + 1>>
LoopNext(i, j, nSamples, nTurbines) ==
    IF j < nTurbines THEN <<i, j + 1>> ELSE <<i + 1, 1>>

AppendRowOncePerInstant(rows, row) ==
    IF \E k \in 1..Len(rows) : rows[k].timestamp_local = row.timestamp_local
    THEN rows
    ELSE Append(rows, row)

\* rows.append(row)
AppendRow(rows, row) == Append(rows, row)

MaxSamples == 2
YearMinutes2023 == 365 * MinutesPerDay

Meters(poly) == Ring([k \in 1..Len(poly) |-> <<poly[k][1] * LenScale, poly[k][2] * LenScale>>])
\* the AOI of the repository's test, one that reaches both turbines, the empty one
AoiTest == Meters(Rect(-200, -200, 200, 200))
AoiWide == Meters(Rect(-200, -200, 400, 400))
CalAois == {AoiTest, AoiWide, EmptyPolygon}
CalTurbineLists == { <<>>, <<Turbine1>>, <<Turbine1, Turbine2>>, <<Turbine2, Turbine1>> }
CalMinElevations == {Deg(5), Deg(25)}
CalZones == {Rome, <<"..", "Invalid">>}
\* <<apparent elevation, azimuth>>
SunSamples == { <<Deg(25), Deg(180)>>, <<Deg(45), Deg(270)>>,
                <<Deg(5), Deg(90)>>, <<-Deg(5), Deg(0)>> }

CalInit ==
    /\ c_pc = "call"
    /\ \E aoi \in CalAois, ts \in CalTurbineLists, mn \in CalMinElevations,
          z \in CalZones, n \in 1..MaxSamples :
          LET step == YearMinutes2023 \div n
              ix   == make_yearly_time_index(2023, z, step)
          IN  \E sun \in [1..Len(ix.times) -> SunSamples] :
                c_in = [ aoi_polygon |-> aoi,
                         turbines    |-> ts,
                         parameters  |-> [year |-> 2023, timezone |-> z,
                                          timestep_minutes |-> step,
                                          min_solar_elevation_deg |-> mn],
                         sun         |-> sun ]
    /\ c_daylight = <<>>
    /\ c_i = 0
    /\ c_j = 0
    /\ c_rows = <<>>
    /\ GeomIdle
    /\ IxIdle
    /\ MainIdle
    /\ GuiIdle

CalIndex ==
    make_yearly_time_index(c_in.parameters.year, c_in.parameters.timezone,
                           c_in.parameters.timestep_minutes)

\* lines 26-34: the index, the solar positions, the daylight filter, rows = []
CalSetup ==
    /\ c_pc = "call"
    /\ IF CalIndex.raised # "none"
       THEN /\ c_pc' = "raised"
            /\ UNCHANGED <<c_daylight, c_i, c_j>>
       ELSE /\ c_pc' = "loop"
            /\ c_daylight' = filter_daylight(
                                compute_solar_position(CalIndex.times, c_in.sun),
                                c_in.parameters.min_solar_elevation_deg)
            /\ c_i' = 1
            /\ c_j' = 1
    /\ c_rows' = <<>>
    /\ UNCHANGED <<c_in, geomVars, ixVars, mainVars, guiVars>>

InLoop ==
    /\ c_pc = "loop"
    /\ c_i \in 1..Len(c_daylight)
    /\ c_j \in 1..Len(c_in.turbines)

\* lines 38-58: one pass of the inner loop body
CalPair ==
    /\ InLoop
    /\ LET sample  == c_daylight[c_i]
           turbine == c_in.turbines[c_j]
           next    == LoopNext(c_i, c_j, Len(c_daylight), Len(c_in.turbines))
       IN  /\ c_rows' = IF intersects_fast(c_in.aoi_polygon, Candidate(turbine, sample))
                        THEN AppendRow(c_rows, FlickerRow(turbine, sample, CalIndex.tz))
                        ELSE c_rows
           /\ c_i' = next[1]
           /\ c_j' = next[2]
    /\ UNCHANGED <<c_pc, c_in, c_daylight, geomVars, ixVars, mainVars, guiVars>>

\* line 60: the loops are exhausted, the rows are returned
CalReturn ==
    /\ c_pc = "loop"
    /\ ~InLoop
    /\ c_pc' = "done"
    /\ UNCHANGED <<c_in, c_daylight, c_i, c_j, c_rows, geomVars, ixVars, mainVars, guiVars>>

CalNext == CalSetup \/ CalPair \/ CalReturn

SpecCal == CalInit /\ [][CalNext]_vars


----------------------------------------------------------------------------
(* Claims about compute_shadow_calendar (checked under SpecCal) *)

\* the instant a row's ISO timestamp denotes
RowInstant(row) == row.timestamp_local.local - row.timestamp_local.offset
\* the position in the input list of the turbine a row names
RowTurbinePos(row) ==
    CHOOSE j \in 1..Len(c_in.turbines) : c_in.turbines[j].turbine_id = row.turbine_id

\* C1: the rows are ordered by sample timestamp and, within a timestamp, by the
\* turbine's position in the input list; this holds after every append.
C1_RowsOrdered ==
    \A p \in 1..Len(c_rows), q \in 1..Len(c_rows) :
        p < q =>
            \/ RowInstant(c_rows[p]) < RowInstant(c_rows[q])
            \/ /\ RowInstant(c_rows[p]) = RowInstant(c_rows[q])
               /\ RowTurbinePos(c_rows[p]) < RowTurbinePos(c_rows[q])

\* C1 witness: the call has returned rows for two turbines at one timestamp,
\* given in the order <<T-2, T-1>>, and a row for a later timestamp
C1_Witness ==
    /\ c_pc = "done"
    /\ c_in.turbines = <<Turbine2, Turbine1>>
    /\ \E p \in 1..Len(c_rows), q \in 1..Len(c_rows), r \in 1..Len(c_rows) :
            /\ p < q
            /\ q < r
            /\ RowInstant(c_rows[p]) = RowInstant(c_rows[q])
            /\ c_rows[p].turbine_id = "T-2"
            /\ c_rows[q].turbine_id = "T-1"
            /\ RowInstant(c_rows[q]) < RowInstant(c_rows[r])

\* the (timestamp, turbine) pairs that call for an event: the sample is above the
\* minimum elevation and the turbine's shadow polygon meets the AOI
IsEventPair(k, j) ==
    /\ c_in.sun[k][1] > c_in.parameters.min_solar_elevation_deg
    /\ polygon_intersects(c_in.aoi_polygon,
            EllipseOf(c_in.turbines[j], c_in.sun[k][2], c_in.sun[k][1]).polygon)
AllPairs == (1..Len(CalIndex.times)) \X (1..Len(c_in.turbines))
EventPairs == {pr \in AllPairs : IsEventPair(pr[1], pr[2])}

RowIsFor(row, pr) ==
    /\ RowInstant(row) = CalIndex.times[pr[1]]
    /\ row.turbine_id = c_in.turbines[pr[2]].turbine_id

\* C2: a (sample, turbine) pair has exactly one event if and only if the sample
\* is strictly above the minimum elevation and the turbine's shadow meets the
\* AOI: no row is ever appended for another pair, and the returned rows are as
\* many as the pairs, one for each.
C2_EventsAreTheIntersectingPairs ==
    /\ c_pc \in {"loop", "done"} =>
            \A r \in 1..Len(c_rows) :
                \E pr \in AllPairs : RowIsFor(c_rows[r], pr) /\ IsEventPair(pr[1], pr[2])
    /\ c_pc = "done" =>
            /\ Len(c_rows) = Cardinality(EventPairs)
            /\ \A pr \in EventPairs :
                    Cardinality({r \in 1..Len(c_rows) : RowIsFor(c_rows[r], pr)}) = 1

\* C2 witness: the call has returned events, a sample at exactly the minimum
\* elevation was dropped, and a daylight pair without intersection has no event
C2_Witness ==
    /\ c_pc = "done"
    /\ Len(c_rows) > 0
    /\ \E k \in 1..Len(c_in.sun) : c_in.sun[k][1] = c_in.parameters.min_solar_elevation_deg
    /\ Len(c_rows) < Len(c_daylight) * Len(c_in.turbines)

\* C6: with an empty turbine list or an empty AOI the call completes without
\* error and returns no events, for every parameter set.
C6_EmptyInputsGiveNoEvents ==
    (c_pc \in {"done", "raised"}
        /\ (c_in.turbines = <<>> \/ c_in.aoi_polygon = EmptyPolygon)) =>
        /\ c_pc = "done"
        /\ c_rows = <<>>

\* C6, for the parameter sets whose timezone key ZoneInfo accepts or does not find
C6_EmptyInputsGiveNoEventsIfZoneResolves ==
    (c_pc \in {"done", "raised"}
        /\ ZoneInfo(c_in.parameters.timezone) # "ValueError"
        /\ (c_in.turbines = <<>> \/ c_in.aoi_polygon = EmptyPolygon)) =>
        /\ c_pc = "done"
        /\ c_rows = <<>>

\* the permutations of 1..n
Perms(n) == {f \in [1..n -> 1..n] : \A a \in 1..n, b \in 1..n : a # b => f[a] # f[b]}

\* the outcome of the intersection test of every (daylight sample, turbine)
\* unit, unit (i, j) at index (i - 1) * nTurbines + j
UnitHits ==
    LET nT == Len(c_in.turbines)
    IN  Ring([k \in 1..(Len(c_daylight) * nT) |->
                intersects_fast(c_in.aoi_polygon,
                                Candidate(c_in.turbines[((k - 1) % nT) + 1],
                                          c_daylight[((k - 1) \div nT) + 1]))])

\* the units in the order of the nested loops, and with the loops exchanged
RECURSIVE LoopOrder(_, _, _, _)
LoopOrder(i, j, nSamples, nTurbines) ==
    IF ~(i \in 1..nSamples /\ j \in 1..nTurbines) THEN <<>>
    ELSE LET next == LoopNext(i, j, nSamples, nTurbines)
         IN  <<<<i, j>>>> \o LoopOrder(next[1], next[2], nSamples, nTurbines)
TurbineMajorOrder(nSamples, nTurbines) ==
    [k \in 1..(nSamples * nTurbines) |->
        <<((k - 1) % nSamples) + 1, ((k - 1) \div nSamples) + 1>>]

\* an order of the units with the samples renumbered by q, the turbines by p
Renumbered(order, q, p) == [k \in 1..Len(order) |-> <<q[order[k][1]], p[order[k][2]]>>]

\* the rows accumulated when the units are processed in the given order
RECURSIVE RunUnits(_, _, _, _)
RunUnits(order, k, hits, rows) ==
    IF k > Len(order) THEN rows
    ELSE LET i == order[k][1]
             j == order[k][2]
         IN  RunUnits(order, k + 1, hits,
                IF hits[(i - 1) * Len(c_in.turbines) + j]
                THEN AppendRow(rows, FlickerRow(c_in.turbines[j], c_daylight[i],
                                                CalIndex.tz))
                ELSE rows)

\* the call with the turbine list permuted by p: the nested loops, the turbine
\* at position j being the one at position p[j] of the list
RowsOfPermutedList(p, hits) ==
    LET nS == Len(c_daylight)
        nT == Len(c_in.turbines)
    IN  RunUnits(Renumbered(LoopOrder(1, 1, nS, nT), [i \in 1..nS |-> i], p), 1, hits, <<>>)

\* execution orders of the units: either nesting, samples and turbines permuted
UnitOrders ==
    LET nS == Len(c_daylight)
        nT == Len(c_in.turbines)
    IN  { Renumbered(base, q, p) :
            base \in {LoopOrder(1, 1, nS, nT), TurbineMajorOrder(nS, nT)},
            q \in Perms(nS), p \in Perms(nT) }

\* re-sorting into (timestamp, turbine input order), by stable insertion
RowNotAfter(a, b) ==
    \/ RowInstant(a) < RowInstant(b)
    \/ RowInstant(a) = RowInstant(b) /\ RowTurbinePos(a) <= RowTurbinePos(b)
InsertRow(sorted, row) ==
    LET n == Cardinality({k \in 1..Len(sorted) : RowNotAfter(sorted[k], row)})
    IN  SubSeq(sorted, 1, n) \o <<row>> \o SubSeq(sorted, n + 1, Len(sorted))
RECURSIVE SortRows(_)
SortRows(rows) ==
    IF rows = <<>> THEN <<>>
    ELSE InsertRow(SortRows(SubSeq(rows, 1, Len(rows) - 1)), rows[Len(rows)])

RowSet(rows) == {rows[k] : k \in 1..Len(rows)}

\* C14: whether a (sample, turbine) unit has an event depends only on that
\* sample, that turbine and the AOI; the call with any permutation of the
\* turbine list returns the same set of events; and the units processed in any
\* order, re-sorted into (timestamp, turbine input order), give exactly the
\* rows of the sequential call.
C14_OrderIndependent ==
    c_pc = "done" =>
        LET hits == UnitHits
            nT   == Len(c_in.turbines)
        IN  /\ \A i \in 1..Len(c_daylight), j \in 1..nT :
                    hits[(i - 1) * nT + j] <=>
                        FlickerRow(c_in.turbines[j], c_daylight[i], CalIndex.tz)
                            \in RowSet(c_rows)
            /\ \A p \in Perms(nT) : RowSet(RowsOfPermutedList(p, hits)) = RowSet(c_rows)
            /\ \A order \in UnitOrders : SortRows(RunUnits(order, 1, hits, <<>>)) = c_rows

\* C14 witness: a call with two turbines has returned two events at one
\* timestamp, and the permuted list gives them in the other order
C14_Witness ==
    /\ c_pc = "done"
    /\ Len(c_in.turbines) = 2
    /\ \E r \in 1..(Len(c_rows) - 1) :
            /\ RowInstant(c_rows[r]) = RowInstant(c_rows[r + 1])
            /\ c_rows[r].turbine_id # c_rows[r + 1].turbine_id
    /\ RowsOfPermutedList([j \in 1..2 |-> 3 - j], UnitHits) # c_rows

\* the six columns of a row
RowFields ==
    {"turbine_id", "timestamp_local", "date", "time", "sun_azimuth_deg", "sun_elevation_deg"}

\* C15: every row carries exactly the six fields; turbine_id is the id of a
\* turbine of the input list, timestamp_local is a timestamp of the time index
\* in local time, date and time are the date and time-of-day parts of that same
\* timestamp, and the sun's azimuth and elevation are those of the solar sample
\* at that timestamp, the elevation strictly above the minimum; with a single
\* input turbine every row's turbine_id is that turbine's id.
C15_RowFields ==
    c_pc \in {"loop", "done"} =>
        \A r \in 1..Len(c_rows) :
            LET row == c_rows[r]
            IN  /\ DOMAIN row = RowFields
                /\ \E j \in 1..Len(c_in.turbines) :
                        row.turbine_id = c_in.turbines[j].turbine_id
                /\ \E k \in 1..Len(CalIndex.times) :
                        LET instant == CalIndex.times[k]
                            off     == UtcOffsetAt(CalIndex.tz, instant)
                        IN  /\ row.timestamp_local = [local |-> instant + off, offset |-> off]
                            /\ row.date * MinutesPerDay + row.time = instant + off
                            /\ row.time \in 0..(MinutesPerDay - 1)
                            /\ row.sun_azimuth_deg = c_in.sun[k][2]
                            /\ row.sun_elevation_deg = c_in.sun[k][1]
                /\ row.sun_elevation_deg > c_in.parameters.min_solar_elevation_deg
                /\ Len(c_in.turbines) = 1 => row.turbine_id = c_in.turbines[1].turbine_id

\* C15 witness: the call with the single turbine of the repository's test has
\* returned a row for a summer timestamp, 13:00 local at offset +02:00
C15_Witness ==
    /\ c_pc = "done"
    /\ c_in.turbines = <<Turbine1>>
    /\ \E r \in 1..Len(c_rows) :
            /\ c_rows[r].turbine_id = "T-1"
            /\ c_rows[r].timestamp_local.offset = 120
            /\ c_rows[r].time = 13 * 60


----------------------------------------------------------------------------
(* Claims about the geometry functions (checked under SpecGeom) *)

EllipseDone == g_op = "ellipse" /\ g_out.done
IntersectsDone == g_op = "intersects" /\ g_out.done

\* the two bounding boxes share an edge coordinate and nothing more
BoundsTouch(b1, b2) ==
    /\ ~b1.nan
    /\ ~b2.nan
    /\ ~BoundsDisjoint(b1, b2)
    /\ (b1.maxx = b2.minx \/ b2.maxx = b1.minx \/ b1.maxy = b2.miny \/ b2.maxy = b1.miny)

\* C3: intersects_fast returns what the exact, non-strict intersection predicate
\* returns, for every pair of polygons: the bounding-box test answers False only
\* when the polygons are disjoint; polygons that touch on an edge or in a point
\* give True, far-apart ones give False.
C3_FastAgreesWithExact ==
    IntersectsDone =>
        /\ g_out.result = polygon_intersects(g_in.aoi_polygon, g_in.candidate)
        /\ (g_in.aoi_polygon = Rect(0, 0, 4, 4) /\ g_in.candidate = Rect(4, 0, 8, 4)
                => g_out.result = TRUE)
        /\ (g_in.aoi_polygon = Rect(0, 0, 4, 4) /\ g_in.candidate = Rect(4, 4, 6, 6)
                => g_out.result = TRUE)
        /\ (g_in.aoi_polygon = Rect(0, 0, 4, 4) /\ g_in.candidate = Rect(10, 10, 12, 12)
                => g_out.result = FALSE)

\* C3 witness: a call on two polygons whose boxes share only an edge coordinate
\* and that touch, answered True
C3_Witness ==
    /\ IntersectsDone
    /\ BoundsTouch(Bounds(g_in.aoi_polygon), Bounds(g_in.candidate))
    /\ g_out.result = TRUE

\* C7: shadow_ellipse_polygon never raises for a sun at or below the horizon:
\* for an elevation at or below the floor the elevation used in the divisions is
\* the floor, for one at or above it the input; both divisors are non-zero and
\* the result is a polygon.
C7_ElevationClamped ==
    EllipseDone =>
        /\ ~g_out.result.raised
        /\ (g_in.sun_elevation <= ElevationFloor => g_out.parts.elevation = ElevationFloor)
        /\ (g_in.sun_elevation >= ElevationFloor => g_out.parts.elevation = g_in.sun_elevation)
        /\ g_out.parts.tanE > 0
        /\ g_out.parts.sinE > 0
        /\ Len(g_out.result.polygon) = 4 * QuadSegs(DefaultNumPoints)

\* C7 witness: a call with the sun at or below the horizon that returned a polygon
C7_Witness ==
    /\ EllipseDone
    /\ g_in.sun_elevation <= 0
    /\ ~g_out.result.raised
    /\ Len(g_out.result.polygon) > 0

\* C8: for a sun elevation in (0, 90] degrees the polygon has strictly positive
\* area; both semi-axes are strictly positive and a >= b.
C8_PositiveArea ==
    (EllipseDone /\ g_in.sun_elevation > 0 /\ g_in.sun_elevation <= Deg(90)) =>
        /\ ~g_out.result.raised
        /\ Area2(g_out.result.polygon) > 0
        /\ g_out.parts.b > 0
        /\ g_out.parts.a >= g_out.parts.b

\* C8 witness: a call with the sun overhead, where a = b
C8_Witness ==
    /\ EllipseDone
    /\ g_in.sun_elevation = Deg(90)
    /\ g_out.parts.a = g_out.parts.b
    /\ Area2(g_out.result.polygon) > 0

\* the polygon of the same call with another azimuth
WithAzimuth(az) == EllipseOf(g_in.turbine, az, g_in.sun_elevation).polygon

\* two azimuths that are equal or mirror images of each other, modulo 180 degrees
SameOrientation(az1, az2) ==
    \/ (az1 - az2) % Deg(180) = 0
    \/ (az1 + az2) % Deg(180) = 0

\* C9 as stated: changing the azimuth, all else fixed, changes the width and the
\* height of the bounding box.
C9_AnyAzimuthChangesBox ==
    EllipseDone =>
        \A az \in AllAzimuths \ {g_in.sun_azimuth} :
            /\ Width(WithAzimuth(az)) # Width(g_out.result.polygon)
            /\ Height(WithAzimuth(az)) # Height(g_out.result.polygon)

\* C9 amended: the major axis (2a) lies along the sun-to-turbine line and the
\* centre is displaced by d opposite the azimuth; changing the azimuth changes
\* width and height when a > b (elevation below 90 degrees), unless the two
\* azimuths are equal or mirror images modulo 180 degrees, where both stay the
\* same; for azimuth 90 against 180 with a > b they are exchanged and both differ.
C9_BoxFollowsAzimuth ==
    EllipseDone =>
        LET poly == g_out.result.polygon
            pt   == g_out.parts
            az0  == g_in.sun_azimuth
            t    == g_in.turbine
        IN  /\ pt.center_x = t.x * LenScale - MulScaled(pt.d, Sin(az0))
            /\ pt.center_y = t.y * LenScale - MulScaled(pt.d, Cos(az0))
            /\ az0 \in {Deg(90), Deg(270)} =>
                    /\ Width(poly) = 2 * pt.a
                    /\ Height(poly) = 2 * pt.b
                    /\ Bounds(poly).minx = pt.center_x - pt.a
                    /\ Bounds(poly).miny = pt.center_y - pt.b
                    /\ pt.center_y = t.y * LenScale
                    /\ pt.center_x = t.x * LenScale + (IF az0 = Deg(90) THEN -pt.d ELSE pt.d)
            /\ az0 \in {Deg(0), Deg(180)} =>
                    /\ Width(poly) = 2 * pt.b
                    /\ Height(poly) = 2 * pt.a
                    /\ pt.center_x = t.x * LenScale
                    /\ pt.center_y = t.y * LenScale + (IF az0 = Deg(180) THEN pt.d ELSE -pt.d)
            /\ pt.a > pt.b =>
                    \A az \in AllAzimuths :
                        IF SameOrientation(az, az0)
                        THEN /\ Width(WithAzimuth(az)) = Width(poly)
                             /\ Height(WithAzimuth(az)) = Height(poly)
                        ELSE /\ Width(WithAzimuth(az)) # Width(poly)
                             /\ Height(WithAzimuth(az)) # Height(poly)
            /\ (az0 = Deg(90) /\ pt.a > pt.b) =>
                    /\ Width(WithAzimuth(Deg(180))) = Height(poly)
                    /\ Height(WithAzimuth(Deg(180))) = Width(poly)
                    /\ Width(WithAzimuth(Deg(180))) # Width(poly)
                    /\ Height(WithAzimuth(Deg(180))) # Height(poly)

\* C9 witness: the call of the repository's test, azimuth 90 at elevation 25
C9_Witness ==
    /\ EllipseDone
    /\ g_in.sun_azimuth = Deg(90)
    /\ g_in.sun_elevation = Deg(25)
    /\ Width(g_out.result.polygon) > Height(g_out.result.polygon)
    /\ Width(WithAzimuth(Deg(180))) = Height(g_out.result.polygon)

----------------------------------------------------------------------------
(* main.py: run *)

\* A module name is the sequence of its characters; a text (a message, the
\* content of the log) is the sequence of its words and punctuation marks.  An
\* exception is [type, name, msg]; name is the module a ModuleNotFoundError
\* names (empty when it names none).
Pandas     == <<"p", "a", "n", "d", "a", "s">>
PandasCore == Pandas \o <<".", "c", "o", "r", "e">>
PandasQL   == Pandas \o <<"q", "l">>
Numpy      == <<"n", "u", "m", "p", "y">>

\* a module name as it is written in a text
NameText(name) ==
    CASE name = Pandas     -> "pandas"
      [] name = PandasCore -> "pandas.core"
      [] name = PandasQL   -> "pandasql"
      [] name = Numpy      -> "numpy"
      [] OTHER             -> ""

ModuleNotFound(name) ==
    [type |-> "ModuleNotFoundError", name |-> name,
     msg  |-> <<"No", "module", "named", "'", NameText(name), "'">>]
Boom == [type |-> "RuntimeError", name |-> <<>>, msg |-> <<"boom">>]
Interrupt == [type |-> "KeyboardInterrupt", name |-> <<>>, msg |-> <<>>]

\* what loading the GUI, or running it, can raise
Failures ==
    { Boom, Interrupt, ModuleNotFound(Pandas), ModuleNotFound(PandasCore),
      ModuleNotFound(PandasQL), ModuleNotFound(Numpy), ModuleNotFound(<<>>) }

StartsWith(str, prefix) ==
    /\ Len(str) >= Len(prefix)
    /\ SubSeq(str, 1, Len(prefix)) = prefix

DevMissingPandas ==
    [type |-> "RuntimeError", name |-> <<>>,
     msg  |-> << "Dipendenza", "Python", "mancante", ":", "pandas", ".",
                 "Installa", "le", "dipendenze", "del", "progetto",
                 "(", "es.", "pip", "install", "-e", ".", ")",
                 "oppure", "esegui", "pip", "install", "pandas",
                 "nell'ambiente", "corrente", "." >>]
FrozenMissingPandas ==
    [type |-> "RuntimeError", name |-> <<>>,
     msg  |-> << "Dipendenza", "mancante", "nel", "build", "dell'eseguibile",
                 ":", "pandas", ".",
                 "Ricrea", "il", "file", ".exe", "includendo", "pandas",
                 "(", "es.", "--hidden-import", "pandas", ")",
                 "oppure", "reinstalla", "l'app", "completa", "." >>]

FriendlyForExactName(exc, frozen) ==
    IF exc.name # Pandas THEN NoExc
    ELSE IF ~frozen THEN DevMissingPandas
    ELSE FrozenMissingPandas

\* _friendly_missing_dependency_error: NoExc stands for None
_friendly_missing_dependency_error(exc, frozen) ==
    IF ~StartsWith(exc.name, Pandas) THEN NoExc
    ELSE IF ~frozen THEN DevMissingPandas
    ELSE FrozenMissingPandas

\* _startup_log_path: the value of SHADOW_OROGRAPHY_STARTUP_LOG when it is set
\* and not empty ("" stands for unset too), else the file in the temp directory
DefaultLogPath == "tempdir/shadow_orography_startup.log"
_startup_log_path == IF m_env.custom_path # "" THEN m_env.custom_path ELSE DefaultLogPath

\* _append_startup_log(message): one entry of the log, in the file it goes to
LogLine(message) == [path |-> _startup_log_path, context |-> message, exc |-> NoExc]
\* _log_exception(exc, context): the line "context: repr(exc)" and the traceback,
\* which ends "Type: message"
LogException(exc, context) ==
    [path |-> _startup_log_path, context |-> context, exc |-> exc]

\* the text of one log entry: the context, then repr(exc) and the last line of
\* the traceback, each the type followed by the message
EntryText(entry) ==
    IF entry.exc = NoExc THEN <<entry.context>>
    ELSE <<entry.context, ":", entry.exc.type>> \o entry.exc.msg
            \o <<entry.exc.type, ":">> \o entry.exc.msg

\* text contains phrase: the words of phrase occur in text, one after the other
Contains(text, phrase) ==
    \E k \in 0..(Len(text) - Len(phrase)) :
        \A j \in 1..Len(phrase) : text[k + j] = phrase[j]

\* the file at path contains phrase after the call
LogContains(path, phrase) ==
    \E k \in 1..Len(m_log) :
        /\ m_log[k].path = path
        /\ Contains(EntryText(m_log[k]), phrase)

\* the except clauses of run, for an exception raised inside the try block:
\* what is logged and what is raised (with its __cause__)
Handle(exc, frozen) ==
    LET friendly == _friendly_missing_dependency_error(exc, frozen)
    IN  IF exc.type = "ModuleNotFoundError" /\ friendly # NoExc
        THEN [logged |-> LogException(friendly, "Fatal startup error"),
              raised |-> [exc |-> friendly, cause |-> exc]]
        ELSE [logged |-> LogException(exc, "Fatal startup error"),
              raised |-> [exc |-> exc, cause |-> NoExc]]

NotRaised == [exc |-> NoExc, cause |-> NoExc]

\* SHADOW_OROGRAPHY_STARTUP_LOG: unset, or the file of the tests
EnvLogPaths == {"", "tmp_path/startup.log"}

MainInit ==
    /\ m_pc = "start"
    /\ \E fr \in BOOLEAN, ld \in Failures \cup {NoExc}, gr \in Failures \cup {NoExc},
          cp \in EnvLogPaths :
            m_env = [frozen |-> fr, load |-> ld, gui |-> gr, custom_path |-> cp]
    /\ m_log = <<>>
    /\ m_raised = NotRaised
    /\ m_gui_calls = 0
    /\ GeomIdle
    /\ IxIdle
    /\ CalIdle
    /\ GuiIdle

RunStartSilent ==
    /\ m_pc = "start"
    /\ m_pc' = "load"
    /\ UNCHANGED <<m_log, m_env, m_raised, m_gui_calls, geomVars, ixVars, calVars, guiVars>>

\* line 78: _append_startup_log("App startup")
RunStart ==
    /\ m_pc = "start"
    /\ m_log' = Append(m_log, LogLine("App startup"))
    /\ m_pc' = "load"
    /\ UNCHANGED <<m_env, m_raised, m_gui_calls, geomVars, ixVars, calVars, guiVars>>

\* line 80: gui_run = _load_gui_run_callable(), and the handlers when it raises
RunLoad ==
    /\ m_pc = "load"
    /\ IF m_env.load = NoExc
       THEN /\ m_pc' = "gui"
            /\ UNCHANGED <<m_log, m_raised>>
       ELSE /\ m_pc' = "done"
            /\ m_log' = Append(m_log, Handle(m_env.load, m_env.frozen).logged)
            /\ m_raised' = Handle(m_env.load, m_env.frozen).raised
    /\ UNCHANGED <<m_env, m_gui_calls, geomVars, ixVars, calVars, guiVars>>

\* line 81: gui_run(), and the handlers when it raises
RunGui ==
    /\ m_pc = "gui"
    /\ m_gui_calls' = m_gui_calls + 1
    /\ m_pc' = "done"
    /\ IF m_env.gui = NoExc
       THEN UNCHANGED <<m_log, m_raised>>
       ELSE /\ m_log' = Append(m_log, Handle(m_env.gui, m_env.frozen).logged)
            /\ m_raised' = Handle(m_env.gui, m_env.frozen).raised
    /\ UNCHANGED <<m_env, geomVars, ixVars, calVars, guiVars>>

MainNext == RunStart \/ RunLoad \/ RunGui

SpecMain == MainInit /\ [][MainNext]_vars

----------------------------------------------------------------------------
(* Claims about main.run (checked under SpecMain) *)

\* the exception that loading or running the GUI raised in this call
StartupFailure == IF m_env.load # NoExc THEN m_env.load ELSE m_env.gui

\* a ModuleNotFoundError for pandas: for the package or one of its submodules
IsMissingPandas(exc) ==
    /\ exc.type = "ModuleNotFoundError"
    /\ (exc.name = Pandas \/ StartsWith(exc.name, Pandas \o <<".">>))

\* C10: when loading or running the GUI raises anything but a
\* ModuleNotFoundError for pandas, run() appends a 'Fatal startup error' entry
\* with the exception's type and message and re-raises that same exception.
C10_FailureLoggedAndReraised ==
    (m_pc = "done" /\ StartupFailure # NoExc /\ ~IsMissingPandas(StartupFailure)) =>
        /\ m_raised.exc = StartupFailure
        /\ \E k \in 1..Len(m_log) :
                /\ m_log[k].context = "Fatal startup error"
                /\ m_log[k].exc = StartupFailure

\* C10, for the failures that do not name a module starting with "pandas"
C10_LoggedAndReraisedUnlessPandasPrefix ==
    (m_pc = "done" /\ StartupFailure # NoExc
        /\ ~(StartupFailure.type = "ModuleNotFoundError"
                /\ StartsWith(StartupFailure.name, Pandas))) =>
        /\ m_raised.exc = StartupFailure
        /\ \E k \in 1..Len(m_log) :
                /\ m_log[k].context = "Fatal startup error"
                /\ m_log[k].exc = StartupFailure

\* C11: in a frozen executable, when loading the GUI raises ModuleNotFoundError
\* for 'pandas', run() raises a RuntimeError whose message contains
\* 'Dipendenza mancante', and afterwards the startup log contains 'pandas',
\* 'shadow_orography.spec' and 'collect-submodules pandas'.
C11_FrozenLogNamesSpecFile ==
    (m_pc = "done" /\ m_env.frozen /\ m_env.load = ModuleNotFound(Pandas)) =>
        /\ m_raised.exc.type = "RuntimeError"
        /\ Contains(m_raised.exc.msg, <<"Dipendenza", "mancante">>)
        /\ LogContains(_startup_log_path, <<"pandas">>)
        /\ LogContains(_startup_log_path, <<"shadow_orography.spec">>)
        /\ LogContains(_startup_log_path, <<"collect-submodules", "pandas">>)

\* C11, without the two phrases the frozen message does not hold: the
\* RuntimeError and the log name pandas and the --hidden-import option
C11_FrozenLogNamesHiddenImport ==
    (m_pc = "done" /\ m_env.frozen /\ m_env.load = ModuleNotFound(Pandas)) =>
        /\ m_raised.exc.type = "RuntimeError"
        /\ Contains(m_raised.exc.msg, <<"Dipendenza", "mancante">>)
        /\ LogContains(_startup_log_path, <<"pandas">>)
        /\ LogContains(_startup_log_path, <<"--hidden-import", "pandas">>)
        /\ ~LogContains(_startup_log_path, <<"shadow_orography.spec">>)
        /\ ~LogContains(_startup_log_path, <<"collect-submodules", "pandas">>)

\* C12: not frozen, when loading the GUI raises ModuleNotFoundError for pandas
\* or a pandas submodule, run() raises a RuntimeError whose message contains
\* 'Installa le dipendenze del progetto', chained from the original error, and
\* the startup log contains 'Dipendenza Python mancante'; a ModuleNotFoundError
\* for a module whose name does not start with 'pandas' is logged and re-raised
\* unchanged.
C12_DevPandasMessage ==
    (m_pc = "done" /\ ~m_env.frozen /\ m_env.load.type = "ModuleNotFoundError") =>
        /\ IsMissingPandas(m_env.load) =>
                /\ m_raised.exc.type = "RuntimeError"
                /\ Contains(m_raised.exc.msg,
                            <<"Installa", "le", "dipendenze", "del", "progetto">>)
                /\ m_raised.cause = m_env.load
                /\ LogContains(_startup_log_path, <<"Dipendenza", "Python", "mancante">>)
        /\ ~StartsWith(m_env.load.name, Pandas) =>
                /\ m_raised = [exc |-> m_env.load, cause |-> NoExc]
                /\ \E k \in 1..Len(m_log) :
                        /\ m_log[k].context = "Fatal startup error"
                        /\ m_log[k].exc = m_env.load

\* C12 witness: the call of the repository's test, 'pandas.core' missing in a
\* development environment, has raised the friendly error
C12_Witness ==
    /\ m_pc = "done"
    /\ ~m_env.frozen
    /\ m_env.load = ModuleNotFound(PandasCore)
    /\ m_raised = [exc |-> DevMissingPandas, cause |-> ModuleNotFound(PandasCore)]

\* C13: in every call of run() the 'App startup' line is appended to the startup
\* log (the file SHADOW_OROGRAPHY_STARTUP_LOG names when set) before the GUI
\* callable is loaded or invoked; when loading succeeds the GUI callable is
\* invoked exactly once; a successful run writes no 'Fatal startup error' entry.
C13_StartupLineFirst ==
    /\ m_pc = "start" => (m_gui_calls = 0 /\ m_raised = NotRaised)
    /\ m_pc # "start" =>
            /\ Len(m_log) >= 1
            /\ m_log[1] = [path    |-> IF m_env.custom_path # ""
                                       THEN m_env.custom_path ELSE DefaultLogPath,
                           context |-> "App startup",
                           exc     |-> NoExc]
    /\ m_gui_calls <= 1
    /\ (m_pc = "done" /\ m_env.load = NoExc) => m_gui_calls = 1
    /\ (m_pc = "done" /\ m_env.load = NoExc /\ m_env.gui = NoExc) =>
            /\ m_raised = NotRaised
            /\ \A k \in 1..Len(m_log) : m_log[k].context # "Fatal startup error"

\* C13 witness: a successful run with the log at the path of the environment
C13_Witness ==
    /\ m_pc = "done"
    /\ m_env.load = NoExc
    /\ m_env.gui = NoExc
    /\ m_env.custom_path # ""
    /\ m_gui_calls = 1
    /\ Len(m_log) = 1
    /\ m_log[1].path = m_env.custom_path

----------------------------------------------------------------------------
(* gui/app.py: MainWindow *)

\* add_demo_turbines (lines 164-167)
DemoTurbines ==
    << [turbine_id |-> "T1", x |-> 0, y |-> 0, hub_height_m |-> 120, rotor_diameter_m |-> 140],
       [turbine_id |-> "T2", x |-> 300, y |-> 150, hub_height_m |-> 100, rotor_diameter_m |-> 120] >>

\* the ranges of the two spin boxes (lines 101, 106)
ClampTo(v, lo, hi) == MaxOf(lo, MinOf(v, hi))
YearInput(v) == ClampTo(v, 2000, 2100)
MinElevInput(v) == ClampTo(v, 0, 45)

\* The year's index has 96 timestamps a day (timestep_minutes = 15, line 177).
\* The data frames are followed at four of its positions: 11 h and 11 h 15 min
\* after the midnight of January 1, and the same on the 172nd day, when the sun
\* is highest in the north.
GuiTimestep == 15
GuiPositions == <<44, 45, 171 * 96 + 44, 171 * 96 + 45>>
GuiTimes(year) ==
    [k \in 1..Len(GuiPositions) |-> Jan1(year, Rome) + GuiTimestep * GuiPositions[k]]

\* pvlib's apparent elevation and azimuth at those timestamps, to the degree:
\* at latitude 45 the sun reaches 68 degrees in the year, at latitude 80 only 33
SolarTable(latitude) ==
    IF latitude = 45
    THEN << <<Deg(21), Deg(175)>>, <<Deg(22), Deg(179)>>,
            <<Deg(67), Deg(170)>>, <<Deg(68), Deg(178)>> >>
    ELSE << <<-Deg(13), Deg(175)>>, <<-Deg(13), Deg(179)>>,
            <<Deg(33), Deg(172)>>, <<Deg(33), Deg(176)>> >>

\* ts.strftime("%Y-%m-%d") of an index timestamp: its local date, as a day number
DayText(instant) == (instant + UtcOffsetAt(Rome, instant)) \div MinutesPerDay

RECURSIVE SortedDays(_)
SortedDays(S) == IF S = {} THEN <<>> ELSE <<SetMin(S)>> \o SortedDays(S \ {SetMin(S)})

\* on_timeline_changed (lines 220-226): the text of the time label afterwards
on_timeline_changed(current_day_df, frame, time_label) ==
    IF current_day_df = <<>> THEN time_label
    ELSE <<current_day_df[MaxOf(0, MinOf(frame, Len(current_day_df) - 1)) + 1].timestamp>>

\* QSlider.setMaximum and QSlider.setValue: the value is kept within the range,
\* and valueChanged calls on_timeline_changed when the value changes
SliderSetMaximum(timeline, maximum, current_day_df, time_label) ==
    LET value == MinOf(timeline.value, maximum)
    IN  [timeline   |-> [maximum |-> maximum, value |-> value],
         time_label |-> IF value # timeline.value
                        THEN on_timeline_changed(current_day_df, value, time_label)
                        ELSE time_label]
SliderSetValue(timeline, v, current_day_df, time_label) ==
    LET value == ClampTo(v, 0, timeline.maximum)
    IN  [timeline   |-> [maximum |-> timeline.maximum, value |-> value],
         time_label |-> IF value # timeline.value
                        THEN on_timeline_changed(current_day_df, value, time_label)
                        ELSE time_label]

\* on_day_changed (lines 210-218): [current_day_df, timeline, time_label] afterwards
KeepFrames(current_day_df, timeline, time_label) ==
    [current_day_df |-> current_day_df, timeline |-> timeline, time_label |-> time_label]
on_day_changed(daylight_df, day_text, current_day_df, timeline, time_label) ==
    IF daylight_df = <<>> \/ day_text = <<>>
    THEN KeepFrames(current_day_df, timeline, time_label)
    ELSE LET OfDay(row) == DayText(row.timestamp) = day_text[1]
             day_df == SelectSeq(daylight_df, OfDay)
             s1 == SliderSetMaximum(timeline, MaxOf(0, Len(day_df) - 1), day_df, time_label)
             s2 == SliderSetValue(s1.timeline, 0, day_df, s1.time_label)
         IN  KeepFrames(day_df, s2.timeline, s2.time_label)

\* the project files load_project can be given: the turbines, the path of the
\* AOI ("" for none), the parameters (<<>> when the file has none)
GuiLatitudes == {45, 80}
GuiYears == {2023, 2024}
GuiMinElevations == {5, 45}
GuiProjects ==
    [ turbines   : {<<>>, <<Turbine1>>},
      aoi_path   : {"", "aoi.shp"},
      parameters : {<<>>} \cup
                   { <<[latitude |-> la, longitude |-> 10, year |-> y,
                        min_solar_elevation_deg |-> mn]>> :
                        la \in GuiLatitudes, y \in GuiYears, mn \in GuiMinElevations } ]
\* the positions the user drags the slider to
GuiFrames == {0, 1, 99}

GuiInit ==
    /\ GuiIdle
    /\ GeomIdle
    /\ IxIdle
    /\ CalIdle
    /\ MainIdle

\* load_project (lines 370-386)
GuiLoadProject ==
    \E payload \in GuiProjects :
        /\ w_turbines' = payload.turbines
        /\ w_aoi_polygon' = IF payload.aoi_path # "" THEN <<payload.aoi_path>>
                            ELSE w_aoi_polygon
        /\ IF payload.parameters # <<>>
           THEN /\ w_parameters' = payload.parameters[1]
                /\ w_inputs' = [year     |-> YearInput(payload.parameters[1].year),
                                min_elev |-> MinElevInput(
                                    payload.parameters[1].min_solar_elevation_deg)]
           ELSE UNCHANGED <<w_parameters, w_inputs>>
        /\ UNCHANGED <<w_results_df, w_daylight_df, w_current_day_df, w_day_selector,
                       w_timeline, w_time_label, geomVars, ixVars, calVars, mainVars>>

\* add_demo_turbines (lines 163-168)
GuiAddDemoTurbines ==
    /\ w_turbines' = DemoTurbines
    /\ UNCHANGED <<w_aoi_polygon, w_parameters, w_inputs, w_results_df, w_daylight_df,
                   w_current_day_df, w_day_selector, w_timeline, w_time_label,
                   geomVars, ixVars, calVars, mainVars>>

\* _refresh_parameters (lines 170-178)
_refresh_parameters ==
    [latitude |-> w_parameters.latitude, longitude |-> w_parameters.longitude,
     year |-> w_inputs.year, min_solar_elevation_deg |-> w_inputs.min_elev]

\* lines 191-201: the daylight rows of the year for the parameters
DaylightOf(parameters) ==
    filter_daylight(
        compute_solar_position(GuiTimes(parameters.year), SolarTable(parameters.latitude)),
        Deg(parameters.min_solar_elevation_deg))

\* compute (lines 180-208)
GuiCompute ==
    LET parameters == _refresh_parameters
        daylight   == DaylightOf(parameters)
        days       == SortedDays({DayText(daylight[k].timestamp) : k \in 1..Len(daylight)})
    IN  /\ w_parameters' = parameters
        /\ IF w_aoi_polygon = <<>> \/ w_turbines = <<>>
           THEN UNCHANGED <<w_results_df, w_daylight_df, w_current_day_df,
                            w_day_selector, w_timeline, w_time_label>>
           ELSE /\ w_results_df' = <<[turbines |-> w_turbines, parameters |-> parameters]>>
                /\ w_daylight_df' = daylight
                /\ IF daylight = <<>>
                   THEN UNCHANGED <<w_current_day_df, w_day_selector, w_timeline,
                                    w_time_label>>
                   ELSE LET after == on_day_changed(daylight, <<days[1]>>,
                                        w_current_day_df, w_timeline, w_time_label)
                        IN  /\ w_day_selector' = [items |-> days, current |-> <<days[1]>>]
                            /\ w_current_day_df' = after.current_day_df
                            /\ w_timeline' = after.timeline
                            /\ w_time_label' = after.time_label
        /\ UNCHANGED <<w_aoi_polygon, w_turbines, w_inputs,
                       geomVars, ixVars, calVars, mainVars>>

\* the user selects another day: currentTextChanged calls on_day_changed
GuiDayChanged ==
    \E k \in 1..Len(w_day_selector.items) :
        LET day_text == <<w_day_selector.items[k]>>
            after    == on_day_changed(w_daylight_df, day_text, w_current_day_df,
                                       w_timeline, w_time_label)
        IN  /\ day_text # w_day_selector.current
            /\ w_day_selector' = [w_day_selector EXCEPT !.current = day_text]
            /\ w_current_day_df' = after.current_day_df
            /\ w_timeline' = after.timeline
            /\ w_time_label' = after.time_label
            /\ UNCHANGED <<w_aoi_polygon, w_turbines, w_parameters, w_inputs,
                           w_results_df, w_daylight_df,
                           geomVars, ixVars, calVars, mainVars>>

\* the user drags the slider: valueChanged calls on_timeline_changed
GuiTimelineChanged ==
    \E frame \in GuiFrames :
        /\ frame <= w_timeline.maximum
        /\ frame # w_timeline.value
        /\ w_timeline' = [w_timeline EXCEPT !.value = frame]
        /\ w_time_label' = on_timeline_changed(w_current_day_df, frame, w_time_label)
        /\ UNCHANGED <<w_aoi_polygon, w_turbines, w_parameters, w_inputs, w_results_df,
                       w_daylight_df, w_current_day_df, w_day_selector,
                       geomVars, ixVars, calVars, mainVars>>

\* advance_frame (lines 238-244), called by the timer
GuiAdvanceFrame ==
    /\ IF w_current_day_df = <<>>
       THEN UNCHANGED <<w_timeline, w_time_label>>
       ELSE LET value == IF w_timeline.value + 1 > w_timeline.maximum
                         THEN 0 ELSE w_timeline.value + 1
                after == SliderSetValue(w_timeline, value, w_current_day_df, w_time_label)
            IN  /\ w_timeline' = after.timeline
                /\ w_time_label' = after.time_label
    /\ UNCHANGED <<w_aoi_polygon, w_turbines, w_parameters, w_inputs, w_results_df,
                   w_daylight_df, w_current_day_df, w_day_selector,
                   geomVars, ixVars, calVars, mainVars>>

GuiNext ==
    \/ GuiLoadProject
    \/ GuiAddDemoTurbines
    \/ GuiCompute
    \/ GuiDayChanged
    \/ GuiTimelineChanged
    \/ GuiAdvanceFrame

SpecGui == GuiInit /\ [][GuiNext]_vars

----------------------------------------------------------------------------
(* Claims about the MainWindow (checked under SpecGui) *)

\* C16: after any sequence of load_project, add_demo_turbines, compute,
\* on_day_changed, on_timeline_changed and advance_frame, the frames of the
\* timeline (current_day_df) are all rows of the daylight series (daylight_df)
\* of the most recent compute; in particular, after a compute whose daylight
\* series is empty no frame of an earlier compute is left.
C16_FramesAreOfLastDaylight ==
    /\ \A k \in 1..Len(w_current_day_df) : w_current_day_df[k] \in RowSet(w_daylight_df)
    /\ w_daylight_df = <<>> => w_current_day_df = <<>>

\* C16, while the daylight series of the most recent compute is not empty
C16_FramesAreOfLastDaylightUnlessEmpty ==
    w_daylight_df # <<>> =>
        \A k \in 1..Len(w_current_day_df) : w_current_day_df[k] \in RowSet(w_daylight_df)

====
